---- MODULE Spec2Model ----
(***************************************************************************)
(* pvbc: a visitor-count badge service (src/src/main.rs).                  *)
(*                                                                         *)
(*   GET /        new_uuid   INSERT a row (gen_random_uuid(), 0)           *)
(*   GET /{uuid}  get_badge  UPDATE count = count + 1 ... RETURNING count  *)
(*                           and render the count as a shields badge       *)
(*                                                                         *)
(* Every request first takes a connection from the bb8 pool (the           *)
(* DatabaseConnection extractor), runs one SQL statement on it, builds its *)
(* response and drops the connection when the handler returns.             *)
(***************************************************************************)
EXTENDS Integers, Sequences, FiniteSets, TLC

(* ------------------------------ bounds -------------------------------- *)

\* Request slots: the number of HTTP requests one behaviour serves.
NumReqs == 3

\* Pool::builder().build(manager): the pool's max_size, scaled down so that
\* NumReqs requests can exhaust it.
PoolMaxSize == 2

\* The count of the row that exists before the first request is served.
InitCount == 1

Reqs == 1 .. NumReqs

(* ------------------------------ values -------------------------------- *)

\* Uuid values. OldUuid names a row of an earlier run of the service;
\* gen_random_uuid() draws from all of Uuids.
OldUuid == "6f1c"

Uuids == {OldUuid, "a2e4", "d903"}

\* Option<T>: None is the empty set, Some(x) the singleton.
None == {}

Some(x) == {x}

\* Option::or
Or(a, b) == IF a # None THEN a ELSE b

\* Option::unwrap_or
UnwrapOr(a, d) == IF a # None THEN CHOOSE x \in a : TRUE ELSE d

\* HashMap::get on the query parameters
Get(params, k) == IF k \in DOMAIN params THEN Some(params[k]) ELSE None

\* The query parameter names a request may carry ("link" is not read by
\* get_badge).
ParamKeys == {"style", "label", "logo", "logoColor", "labelColor", "color", "messageColor", "link"}

ParamValues(k) ==
    CASE k = "style" -> {"flat", "flat-square", "plastic", "for-the-badge", "social", "bogus", "Flat"}
      [] k = "label" -> {"hits"}
      [] k = "logo" -> {"rust"}
      [] k = "logoColor" -> {"white"}
      [] k = "labelColor" -> {"grey"}
      [] k = "color" -> {"red", "blue"}
      [] k = "messageColor" -> {"red", "blue"}
      [] OTHER -> {"x"}

\* An optional parameter: absent, or present with one of its values.
Opt(k) == {None} \cup {Some(v) : v \in ParamValues(k)}

\* The map holding the parameters that are present in o.
ToMap(o) == [k \in {k \in ParamKeys : o[k] # None} |-> CHOOSE v \in o[k] : TRUE]

\* Query<HashMap<String, String>>: every map from some of the keys to one
\* of that key's values.
AllQueries ==
    {ToMap(o) : o \in [style : Opt("style"), label : Opt("label"), logo : Opt("logo"),
                       logoColor : Opt("logoColor"), labelColor : Opt("labelColor"),
                       color : Opt("color"), messageColor : Opt("messageColor"),
                       link : Opt("link")]}

NoQuery == [k \in {} |-> "x"]

\* The query of the requests that run concurrently.
MixQueries == {[style |-> "plastic", messageColor |-> "blue", link |-> "x"]}

(* ------------------------- pure functions ----------------------------- *)

Digit(d) ==
    CASE d = 0 -> "0" [] d = 1 -> "1" [] d = 2 -> "2" [] d = 3 -> "3" [] d = 4 -> "4"
      [] d = 5 -> "5" [] d = 6 -> "6" [] d = 7 -> "7" [] d = 8 -> "8" [] d = 9 -> "9"

\* i64::to_string
RECURSIVE to_string(_)
to_string(n) ==
    IF n < 0 THEN "-" \o to_string(0 - n)
    ELSE IF n < 10 THEN Digit(n)
    ELSE to_string(n \div 10) \o Digit(n % 10)

\* Display of the errors the handlers can meet:
\*   TimedOut         bb8::RunError::TimedOut, from pool.get_owned()
\*   Closed           tokio_postgres: the connection was lost
\*   UniqueViolation  tokio_postgres: the INSERT hit the primary key
\*   RowCount         tokio_postgres: query_opt/query_one got several rows
ErrToString(e) ==
    CASE e = "TimedOut" -> "Timed out in bb8"
      [] e = "Closed" -> "connection closed"
      [] e = "UniqueViolation" -> "db error"
      [] e = "RowCount" -> "query returned an unexpected number of rows"

NoBadge == [style |-> "", label |-> "", message |-> "", logo |-> None,
            logo_color |-> None, label_color |-> None, message_color |-> None]

NoResp == [status |-> 0, ctype |-> "", text |-> "", badge |-> NoBadge]

internal_error(e) ==
    [status |-> 500, ctype |-> "text/plain", text |-> ErrToString(e), badge |-> NoBadge]

badge_style_from_string(s) ==
    CASE s = "flat-square" -> Some("FlatSquare")
      [] s = "plastic" -> Some("Plastic")
      [] s = "for-the-badge" -> Some("ForTheBadge")
      [] s = "social" -> Some("Social")
      [] s = "flat" -> Some("Flat")
      [] OTHER -> None

\* badge_style with another default: unwrap_or(shields::BadgeStyle::Plastic).
badge_style_default_plastic(params) ==
    LET s == Get(params, "style")
        parsed == IF s = None THEN None ELSE badge_style_from_string(CHOOSE x \in s : TRUE)
    IN  UnwrapOr(parsed, "Plastic")

\* params.get("style").and_then(badge_style_from_string).unwrap_or(Flat)
badge_style(params) ==
    LET s == Get(params, "style")
        parsed == IF s = None THEN None ELSE badge_style_from_string(CHOOSE x \in s : TRUE)
    IN  UnwrapOr(parsed, "Flat")

\* message_color with the alias looked up first:
\* params.get("messageColor").or(params.get("color")).
message_color_alias_first(params) == Or(Get(params, "messageColor"), Get(params, "color"))

\* params.get("color").or(params.get("messageColor"))
message_color(params) == Or(Get(params, "color"), Get(params, "messageColor"))

\* The Badge builder as get_badge leaves it before badge.build().
build_badge(params, current_count) ==
    [style |-> badge_style(params),
     label |-> UnwrapOr(Get(params, "label"), "visitors"),
     message |-> to_string(current_count),
     logo |-> Get(params, "logo"),
     logo_color |-> Get(params, "logoColor"),
     label_color |-> Get(params, "labelColor"),
     message_color |-> message_color(params)]

\* The text new_uuid formats around the new id.
welcome(u) == "Your new unique ID is: " \o u \o "\nTo begin tracking, visit: /" \o u

(* ------------------------- the counts table --------------------------- *)

\* The rows of counts whose id is u.
Matching(tbl, u) == {i \in DOMAIN tbl : tbl[i].id = u}

\* primary_key_ok for a table created without PRIMARY KEY.
no_primary_key(tbl, u) == TRUE

\* id UUID PRIMARY KEY: an INSERT of an id the table holds is refused.
primary_key_ok(tbl, u) == Matching(tbl, u) = {}

\* INSERT INTO counts (id, count) VALUES (u, 0)
insert_row(tbl, u) == Append(tbl, [id |-> u, count |-> 0])

\* update_rows without its WHERE clause: every row is incremented.
update_rows_no_where(tbl, u) == [i \in DOMAIN tbl |-> [tbl[i] EXCEPT !.count = @ + 1]]

\* UPDATE counts SET count = count + 1 WHERE id = u
update_rows(tbl, u) ==
    [i \in DOMAIN tbl |-> IF tbl[i].id = u THEN [tbl[i] EXCEPT !.count = @ + 1] ELSE tbl[i]]

\* The outcome of a statement, as the handler holds it after .await.
RowCount(n) == [tag |-> "row", count |-> n, id |-> "", err |-> ""]

RowId(u) == [tag |-> "row", count |-> 0, id |-> u, err |-> ""]

NoRow == [tag |-> "none", count |-> 0, id |-> "", err |-> ""]

Err(e) == [tag |-> "err", count |-> 0, id |-> "", err |-> e]

(* ------------------------------ state --------------------------------- *)

VARIABLES
    counts,   \* the counts table: a sequence of rows [id, count]
    inUse,    \* connections of the pool that are checked out
    req       \* per request slot: pc, route, uuid, params, resp

vars == <<counts, inUse, req>>

Idle == [pc |-> "idle", route |-> "", uuid |-> "", params |-> NoQuery, resp |-> NoResp]

\* main: the pool is built, the init connection is dropped again, CREATE
\* TABLE IF NOT EXISTS keeps the rows of earlier runs.
Init ==
    /\ counts = <<[id |-> OldUuid, count |-> InitCount]>>
    /\ inUse = 0
    /\ req = [r \in Reqs |-> Idle]

(* ----------------------------- actions -------------------------------- *)

\* A request is routed: "/" to new_uuid, "/{uuid}" to get_badge with the
\* parsed path and query. Slots are taken in order of arrival.
Arrive(r, route, u, q) ==
    /\ req[r].pc = "idle"
    /\ \A s \in Reqs : s < r => req[s].pc # "idle"
    /\ req' = [req EXCEPT ![r] = [Idle EXCEPT !.pc = "start", !.route = route,
                                              !.uuid = IF route = "badge" THEN u ELSE "",
                                              !.params = IF route = "badge" THEN q ELSE NoQuery]]
    /\ UNCHANGED <<counts, inUse>>

\* pool.get_owned() finds a connection at once.
from_request_parts(r) ==
    /\ req[r].pc = "start"
    /\ inUse < PoolMaxSize
    /\ inUse' = inUse + 1
    /\ req' = [req EXCEPT ![r].pc = "holding"]
    /\ UNCHANGED counts

\* pool.get_owned() finds every connection checked out and waits.
pool_wait(r) ==
    /\ req[r].pc = "start"
    /\ inUse >= PoolMaxSize
    /\ req' = [req EXCEPT ![r].pc = "waiting"]
    /\ UNCHANGED <<counts, inUse>>

\* A connection came back while the request waited.
pool_grant(r) ==
    /\ req[r].pc = "waiting"
    /\ inUse < PoolMaxSize
    /\ inUse' = inUse + 1
    /\ req' = [req EXCEPT ![r].pc = "holding"]
    /\ UNCHANGED counts

\* pool_timeout for a pool whose timeout covers only opening a connection:
\* a request that waits for a returned connection never gives up.
pool_timeout_connect_only(r) ==
    /\ req[r].pc = "start"
    /\ req' = [req EXCEPT ![r].pc = "done", ![r].resp = internal_error("TimedOut")]
    /\ UNCHANGED <<counts, inUse>>

\* pool.get_owned() gives up after the pool's connection_timeout (no
\* connection came back, or none could be opened): map_err(internal_error)?
pool_timeout(r) ==
    /\ req[r].pc \in {"start", "waiting"}
    /\ req' = [req EXCEPT ![r].pc = "done", ![r].resp = internal_error("TimedOut")]
    /\ UNCHANGED <<counts, inUse>>

\* insert_returning as an upsert: ON CONFLICT (id) DO UPDATE SET count = 0.
insert_returning_upsert(tbl, u, up) ==
    IF ~up THEN [tbl |-> tbl, result |-> Err("Closed")]
    ELSE IF ~primary_key_ok(tbl, u)
    THEN [tbl |-> [i \in DOMAIN tbl |-> IF tbl[i].id = u THEN [tbl[i] EXCEPT !.count = 0] ELSE tbl[i]],
          result |-> RowId(u)]
    ELSE [tbl |-> insert_row(tbl, u), result |-> RowId(u)]

\* conn.query_one("INSERT INTO counts (id, count) VALUES (gen_random_uuid(), 0)
\* RETURNING id"): the table after the statement and what the handler gets.
\* u is the uuid gen_random_uuid() drew, up whether the connection is alive.
insert_returning(tbl, u, up) ==
    IF ~up THEN [tbl |-> tbl, result |-> Err("Closed")]
    ELSE IF ~primary_key_ok(tbl, u) THEN [tbl |-> tbl, result |-> Err("UniqueViolation")]
    ELSE [tbl |-> insert_row(tbl, u), result |-> RowId(u)]

\* update_returning that hands back the count it read before the increment.
update_returning_old(tbl, u, up) ==
    IF ~up THEN [tbl |-> tbl, result |-> Err("Closed")]
    ELSE LET hit == Matching(tbl, u)
         IN  [tbl |-> update_rows(tbl, u),
              result |-> IF hit = {} THEN NoRow
                         ELSE IF Cardinality(hit) = 1
                         THEN RowCount(tbl[CHOOSE i \in hit : TRUE].count)
                         ELSE Err("RowCount")]

\* update_returning through query_one: no row is an error.
update_returning_query_one(tbl, u, up) ==
    IF ~up THEN [tbl |-> tbl, result |-> Err("Closed")]
    ELSE LET hit == Matching(tbl, u)
             new == update_rows(tbl, u)
         IN  [tbl |-> new,
              result |-> IF Cardinality(hit) = 1
                         THEN RowCount(new[CHOOSE i \in hit : TRUE].count)
                         ELSE Err("RowCount")]

\* conn.query_opt("UPDATE counts SET count = count + 1 WHERE id = $1
\* RETURNING count"): the table after the statement and what the handler gets.
update_returning(tbl, u, up) ==
    IF ~up THEN [tbl |-> tbl, result |-> Err("Closed")]
    ELSE LET hit == Matching(tbl, u)
             new == update_rows(tbl, u)
         IN  [tbl |-> new,
              result |-> IF hit = {} THEN NoRow
                         ELSE IF Cardinality(hit) = 1
                         THEN RowCount(new[CHOOSE i \in hit : TRUE].count)
                         ELSE Err("RowCount")]

\* The response new_uuid builds from the statement's outcome.
new_uuid_response(result) ==
    IF result.tag = "err" THEN internal_error(result.err)
    ELSE [status |-> 200, ctype |-> "text/plain", text |-> welcome(result.id), badge |-> NoBadge]

\* get_badge_response that takes a failed statement for a missing row:
\* result.ok().flatten() in place of map_err(internal_error)?.
get_badge_response_masks_error(params, result) ==
    IF result.tag \in {"err", "none"}
    THEN [status |-> 404, ctype |-> "text/plain", text |-> "UUID not found", badge |-> NoBadge]
    ELSE [status |-> 200, ctype |-> "image/svg+xml", text |-> "",
          badge |-> build_badge(params, result.count)]

\* The response get_badge builds from the statement's outcome.
get_badge_response(params, result) ==
    IF result.tag = "err" THEN internal_error(result.err)
    ELSE IF result.tag = "none"
    THEN [status |-> 404, ctype |-> "text/plain", text |-> "UUID not found", badge |-> NoBadge]
    ELSE [status |-> 200, ctype |-> "image/svg+xml", text |-> "",
          badge |-> build_badge(params, result.count)]

\* release with the connection kept (mem::forget) on the early return.
release_leaks_not_found(n, result) == IF result.tag = "none" THEN n ELSE n - 1

\* The connections the pool counts as checked out once a handler that held
\* one has returned with result: conn is dropped on every return.
release(n, result) == n - 1

\* new_uuid, from the statement to the handler's return.
new_uuid(r, u, up) ==
    /\ req[r].pc = "holding"
    /\ req[r].route = "new"
    /\ LET q == insert_returning(counts, u, up)
       IN  /\ counts' = q.tbl
           /\ req' = [req EXCEPT ![r].pc = "done", ![r].resp = new_uuid_response(q.result)]
           /\ inUse' = release(inUse, q.result)

\* get_badge, from the statement to the handler's return.
get_badge(r, up) ==
    /\ req[r].pc = "holding"
    /\ req[r].route = "badge"
    /\ LET q == update_returning(counts, req[r].uuid, up)
       IN  /\ counts' = q.tbl
           /\ req' = [req EXCEPT ![r].pc = "done",
                                 ![r].resp = get_badge_response(req[r].params, q.result)]
           /\ inUse' = release(inUse, q.result)

\* What the service does for a request once it is routed.
Step(r) ==
    \/ from_request_parts(r)
    \/ pool_wait(r)
    \/ pool_grant(r)
    \/ pool_timeout(r)
    \/ \E u \in Uuids, up \in BOOLEAN : new_uuid(r, u, up)
    \/ \E up \in BOOLEAN : get_badge(r, up)

Next ==
    \/ \E r \in Reqs, route \in {"new", "badge"}, u \in Uuids, q \in MixQueries : Arrive(r, route, u, q)
    \/ \E r \in Reqs : Step(r)

Spec == Init /\ [][Next]_vars

\* The runtime polls every task that can run and the pool's timer fires: a
\* routed request is not left forever with a step it can take.
FairSpec == Spec /\ \A r \in Reqs : WF_vars(Step(r))

\* One GET /{uuid} served alone, its query ranging over AllQueries.
NextRender ==
    \/ \E u \in Uuids, q \in AllQueries : Arrive(1, "badge", u, q)
    \/ from_request_parts(1)
    \/ pool_timeout(1)
    \/ \E up \in BOOLEAN : get_badge(1, up)

SpecRender == Init /\ [][NextRender]_vars

(* --------------------------- properties ------------------------------- *)

Done(r) == req[r].pc = "done"

Ok(r) == Done(r) /\ req[r].resp.status = 200

Holding(r) == req[r].pc = "holding"

Ids(tbl) == {tbl[i].id : i \in DOMAIN tbl}

CountOf(tbl, u) == tbl[CHOOSE i \in Matching(tbl, u) : TRUE].count

\* The count a row had before the first request: InitCount for the row of
\* an earlier run, 0 for a row a request created.
Base(u) == IF u = OldUuid THEN InitCount ELSE 0

\* The requests that incremented u and got its badge.
Hits(u) == {r \in Reqs : Ok(r) /\ req[r].route = "badge" /\ req[r].uuid = u}

\* The counts their badges show.
Returned(u) == {req[r].resp.badge.message : r \in Hits(u)}

\* The requests that created a counter and got its id.
Created == {r \in Reqs : Ok(r) /\ req[r].route = "new"}

MaxCount == InitCount + NumReqs

\* The number a badge message shows.
Parse(s) == CHOOSE k \in 0 .. MaxCount : to_string(k) = s

\* Request r returns in this step.
Returns(r) == req[r].pc # "done" /\ req'[r].pc = "done"

NotFound == [status |-> 404, ctype |-> "text/plain", text |-> "UUID not found", badge |-> NoBadge]

\* C1: at every moment, and so once N concurrent GET /{id} have all
\* succeeded, the stored count of id is its count before the calls plus the
\* number of successful calls, and the counts returned to the callers are
\* pairwise distinct and are exactly c+1 .. c+N.
C1_NoLostUpdate ==
    \A u \in Ids(counts) :
        LET n == Cardinality(Hits(u))
        IN  /\ CountOf(counts, u) = Base(u) + n
            /\ Returned(u) = {to_string(k) : k \in (Base(u) + 1) .. (Base(u) + n)}
            /\ Cardinality(Returned(u)) = n

\* Two GET /{id} succeeded while an earlier GET /{id} for the same id was
\* still in flight on its connection.
C1_Witness ==
    \E u \in Uuids, s \in Reqs :
        /\ Holding(s) /\ req[s].route = "badge" /\ req[s].uuid = u
        /\ Cardinality({r \in Hits(u) : r > s}) >= 2

\* The largest count returned for u so far (its initial count when none).
LastReturned(u) ==
    IF Hits(u) = {} THEN Base(u)
    ELSE CHOOSE k \in 0 .. MaxCount :
             /\ to_string(k) \in Returned(u)
             /\ \A m \in 0 .. MaxCount : to_string(m) \in Returned(u) => m <= k

\* C2: a counter created by GET / starts at 0, and each successful
\* GET /{id} returns the previously returned value plus 1 (1 for the first
\* call on a created id).
C2_Sequential ==
    [][\A r \in Reqs :
          /\ (Returns(r) /\ req[r].route = "new" /\ req'[r].resp.status = 200) =>
                \E u \in Uuids \ Ids(counts) :
                    /\ req'[r].resp.text = welcome(u)
                    /\ CountOf(counts', u) = 0
                    /\ Hits(u) = {} /\ Base(u) = 0
          /\ (Returns(r) /\ req[r].route = "badge" /\ req'[r].resp.status = 200) =>
                req'[r].resp.badge.message = to_string(LastReturned(req[r].uuid) + 1)
      ]_vars

\* A created counter was incremented twice and returned 1, then 2.
C2_Witness ==
    \E u \in Uuids, c \in Created :
        /\ req[c].resp.text = welcome(u)
        /\ Returned(u) = {"1", "2"}
        /\ CountOf(counts, u) = 2

\* C3 as stated: a GET /{id} on an id that has no record always ends with
\* 404 "UUID not found".
C3_Original ==
    \A r \in Reqs :
        (Done(r) /\ req[r].route = "badge" /\ req[r].uuid \notin Ids(counts)) =>
            req[r].resp = NotFound

\* C3 as amended: a GET /{id} on an id that has no record creates no record
\* and changes no count; its statement, when it runs, finds no row and the
\* response is 404 "UUID not found"; the only other outcomes are the 500 of
\* a connection the pool did not deliver in time and the 500 of a lost
\* connection, never a 200 and never an error for the missing row itself.
C3_UnknownId ==
    /\ [](\A u \in Uuids \ Ids(counts) : \A q \in MixQueries :
            LET res == update_returning(counts, u, TRUE)
            IN  /\ res.tbl = counts
                /\ get_badge_response(q, res.result) = NotFound)
    /\ [][\A r \in Reqs :
            (Returns(r) /\ req[r].route = "badge" /\ req[r].uuid \notin Ids(counts)) =>
                /\ counts' = counts
                /\ req[r].pc = "holding" =>
                       req'[r].resp \in {NotFound, internal_error("Closed")}
                /\ req[r].pc # "holding" => req'[r].resp = internal_error("TimedOut")
       ]_vars

\* A GET /{id} on an id without a record was answered 404 while the table
\* held another counter that had been incremented.
C3_Witness ==
    \E r \in Reqs :
        /\ Done(r) /\ req[r].route = "badge" /\ req[r].uuid \notin Ids(counts)
        /\ req[r].resp = NotFound
        /\ CountOf(counts, OldUuid) > InitCount

\* C4: the ids returned by successful GET / are pairwise distinct and differ
\* from every id stored before the call; each successful call appends
\* exactly one row, with count 0, and the table never holds an id twice.
C4_Unique ==
    /\ [](/\ \A i, j \in DOMAIN counts : counts[i].id = counts[j].id => i = j
          /\ \A c, d \in Created : req[c].resp.text = req[d].resp.text => c = d
          /\ Len(counts) = 1 + Cardinality(Created))
    /\ [][\A r \in Reqs :
            (Returns(r) /\ req[r].route = "new" /\ req'[r].resp.status = 200) =>
                \E u \in Uuids \ Ids(counts) :
                    /\ req'[r].resp.text = welcome(u)
                    /\ \A c \in Created : req[c].resp.text # welcome(u)
                    /\ counts' = Append(counts, [id |-> u, count |-> 0])
       ]_vars

\* Two GET / succeeded and a third failed on an id the table already held.
C4_Witness ==
    /\ Cardinality(Created) = 2
    /\ \E r \in Reqs : Done(r) /\ req[r].route = "new"
                       /\ req[r].resp = internal_error("UniqueViolation")

\* C5: every count is a non-negative integer and every id has one row; no
\* step removes a row or changes its id, and every step changes each count
\* by 0 or by +1.
C5_Monotonic ==
    /\ [](\A i \in DOMAIN counts :
            /\ counts[i].count \in Nat
            /\ Matching(counts, counts[i].id) = {i})
    /\ [][/\ Len(counts') >= Len(counts)
          /\ \A i \in DOMAIN counts :
                /\ counts'[i].id = counts[i].id
                /\ counts'[i].count - counts[i].count \in {0, 1}
       ]_vars

\* A counter was created and incremented, the old counter was incremented,
\* and a third request has failed.
C5_Witness ==
    /\ Len(counts) = 2
    /\ counts[1].count = InitCount + 1
    /\ counts[2].count = 1

C7_Original ==
    [][\A r \in Reqs : req[r].pc = "waiting" => req'[r].pc \in {"waiting", "done"}]_vars

\* C7 as amended: a request that finds every connection in use waits; it is
\* given a connection another request returns or, when the pool's connection
\* timeout expires, fails with a 500; the timeout is always open to it, so it
\* never blocks indefinitely. Every routed request eventually has exactly one
\* terminal response, a 200, a 404 or a 500: a response is final, and from
\* some moment on every request that was ever routed has one.
C7_Terminates ==
    /\ [](\A r \in Reqs : req[r].pc = "waiting" =>
            /\ ENABLED pool_timeout(r)
            /\ inUse < PoolMaxSize => ENABLED pool_grant(r))
    /\ [](\A r \in Reqs : Done(r) => req[r].resp.status \in {200, 404, 500})
    /\ [][\A r \in Reqs :
            /\ Done(r) => req'[r] = req[r]
            /\ req[r].pc # "idle" => req'[r].pc # "idle"
            /\ (req[r].pc = "waiting" /\ Returns(r)) =>
                   req'[r].resp = internal_error("TimedOut")
       ]_vars
    /\ <>[](\A r \in Reqs : req[r].pc \in {"idle", "done"})

\* A request found the pool exhausted and waits; a request that held a
\* connection has returned it with its 200, so the waiting one can take it.
C7_Witness ==
    \E r, s \in Reqs :
        /\ req[r].pc = "waiting" /\ inUse < PoolMaxSize
        /\ Ok(s)

\* C8: the connections checked out are exactly those of the requests between
\* acquisition and return, one each, never more than the pool holds, and
\* none once every request has returned.
C8_PoolScoped ==
    /\ inUse = Cardinality({r \in Reqs : Holding(r)})
    /\ inUse <= PoolMaxSize
    /\ (\A r \in Reqs : req[r].pc \in {"idle", "done"}) => inUse = 0

\* Requests returned on each exit path (200, 404, 500 from the statement)
\* and the pool is whole again.
C8_Witness ==
    /\ inUse = 0
    /\ \E r \in Reqs : Ok(r)
    /\ \E r \in Reqs : Done(r) /\ req[r].resp = NotFound
    /\ \E r \in Reqs : Done(r) /\ req[r].resp = internal_error("Closed")

\* The query with `messageColor` passed as `color` instead.
AsColor(p) ==
    [k \in (DOMAIN p \ {"messageColor"}) \cup {"color"} |->
        IF k = "color" THEN p["messageColor"] ELSE p[k]]

\* C9: the badge's message color is the value of `color` when present (also
\* beside `messageColor`), else the value of `messageColor`, which renders
\* as the same query with that value passed as `color`; with neither, no
\* message color is set.
C9_ColorPrecedence ==
    \A r \in Reqs :
        (Ok(r) /\ req[r].route = "badge") =>
            LET p == req[r].params
                b == req[r].resp.badge
            IN  /\ "color" \in DOMAIN p => b.message_color = {p["color"]}
                /\ ("color" \notin DOMAIN p /\ "messageColor" \in DOMAIN p) =>
                      /\ b.message_color = {p["messageColor"]}
                      /\ b = build_badge(AsColor(p), Parse(b.message))
                /\ ("color" \notin DOMAIN p /\ "messageColor" \notin DOMAIN p) =>
                      b.message_color = {}

\* A badge was rendered for a query with both parameters, of different
\* values, and shows the value of `color`.
C9_Witness ==
    \E r \in Reqs :
        /\ Ok(r) /\ req[r].route = "badge"
        /\ "color" \in DOMAIN req[r].params /\ "messageColor" \in DOMAIN req[r].params
        /\ req[r].params["color"] = "red" /\ req[r].params["messageColor"] = "blue"
        /\ req[r].resp.badge.message_color = {"red"}

\* The query with `style` set to s.
WithStyle(p, s) == [k \in DOMAIN p \cup {"style"} |-> IF k = "style" THEN s ELSE p[k]]

Recognized == {"flat", "flat-square", "plastic", "for-the-badge", "social"}

StyleOf(s) ==
    CASE s = "flat" -> "Flat" [] s = "flat-square" -> "FlatSquare" [] s = "plastic" -> "Plastic"
      [] s = "for-the-badge" -> "ForTheBadge" [] s = "social" -> "Social"

\* C10: each of the five style strings selects its own style; with any other
\* string, or without `style`, the request is answered as the same request
\* with style=flat, whatever the statement's outcome.
C10_StyleFallback ==
    \A r \in Reqs :
        LET p == req[r].params
            known == "style" \in DOMAIN p /\ p["style"] \in Recognized
        IN  /\ (Ok(r) /\ req[r].route = "badge") =>
                  /\ known => req[r].resp.badge.style = StyleOf(p["style"])
                  /\ ~known => /\ req[r].resp.badge.style = "Flat"
                               /\ req[r].resp.badge =
                                    build_badge(WithStyle(p, "flat"), Parse(req[r].resp.badge.message))
            /\ (Holding(r) /\ req[r].route = "badge" /\ ~known) =>
                  \A up \in BOOLEAN :
                      LET res == update_returning(counts, req[r].uuid, up).result
                      IN  get_badge_response(p, res) = get_badge_response(WithStyle(p, "flat"), res)

\* A badge was rendered for a query whose style is not one of the five.
C10_Witness ==
    \E r \in Reqs :
        /\ Ok(r) /\ req[r].route = "badge"
        /\ "style" \in DOMAIN req[r].params /\ req[r].params["style"] = "bogus"
        /\ req[r].resp.badge.style = "Flat"

====
